---- MODULE Spec2Model ----
(***************************************************************************)
(* Model of toy-secp256k1 (src/src/lib.rs): the prime-field element Zp and *)
(* the curve point Point built on the fixed-width integer U256.            *)
(*                                                                         *)
(* The library works on 256-bit words.  The model keeps every algorithm    *)
(* of the source as written and instantiates the word width and the curve  *)
(* constants with a small curve of the same shape:                         *)
(*   - Width-bit words (the source: 256),                                  *)
(*   - a prime P with 2^(Width-1) < P < 2^Width (the source: 2^256-2^32-977*)
(*     so every word is below 2*P and a sum of two residues can overflow), *)
(*   - the curve y^2 = x^3 + 7 over F_P with A = 0, B = 7,                 *)
(*   - whose group has prime order SECP256K1_GROUP_ORDER, with             *)
(*     2^(Width-1) < SECP256K1_GROUP_ORDER < P as for secp256k1,           *)
(*   - and a generator G on the curve.                                     *)
(***************************************************************************)
EXTENDS Integers, Sequences, FiniteSets, TLC

\* Word width of U256 (256 in the source; the loops run once per bit).
Width == 7

TwoW == 2 ^ Width

\* The values of a U256 word.
U256 == 0 .. (TwoW - 1)

\* const P: the field modulus.
P == 79

\* Result of a panicking U256 operation (`-` panics on underflow).
Panic == 0 - 1

\* Option<T>: None, Some(v).
None == << >>

Some(v) == << v >>

---------------------------------------------------------------------------
\* U256 primitives used by the source.

overflowing_add(x, y) == << (x + y) % TwoW, (x + y) >= TwoW >>

overflowing_sub(x, y) == << (x - y + TwoW) % TwoW, x < y >>

\* trait U256Ext
wrapping_add(x, y) == overflowing_add(x, y)[1]

wrapping_sub(x, y) == overflowing_sub(x, y)[1]

wrapping_shl(x, n) == (x * (2 ^ n)) % TwoW

\* rhs & U256([0, 0, 0, 1 << 63]) != U256::zero(): the top bit of the word.
top_bit(x) == (x \div (2 ^ (Width - 1))) % 2 = 1

\* The `-` operator of U256: panics when the difference underflows.
checked_sub(x, y) == IF x >= y THEN x - y ELSE Panic

\* U256::mod_inverse(self, modulo): the extended Euclidean algorithm of the
\* integer collaborator.  mn is the remainder pair, xy the coefficient pair,
\* kept reduced modulo `modulo`; the loop runs while mn.1 != 0.
mod_inverse(self, modulo) ==
    LET loop[st \in [m : Int, n : Int, x : Int, y : Int]] ==
            IF st.n = 0
            THEN st.x
            ELSE LET sb == ((st.m \div st.n) * st.y) % modulo
                 IN  loop[[m |-> st.n,
                           n |-> st.m % st.n,
                           x |-> st.y,
                           y |-> IF sb > st.x
                                 THEN modulo - (sb - st.x)
                                 ELSE st.x - sb]]
    IN  loop[[m |-> modulo, n |-> self, x |-> 0, y |-> 1]]

---------------------------------------------------------------------------
\* Zp: a field element is its underlying U256 value.

Zp == 0 .. (P - 1)

ZERO == 0

\* A slip that compares with > instead of >=.
wrapping_from_gt(value) ==
    IF value > P THEN wrapping_sub(value, P) ELSE value

wrapping_from(value) ==
    IF value >= P THEN wrapping_sub(value, P) ELSE value

checked_from(value) ==
    IF value >= P THEN None ELSE Some(value)

is_zero(self) == self = 0

\* The inverses modulo P, each computed once by mod_inverse.
Zp_inverses == [self \in U256 |-> mod_inverse(self, P)]

multiplicative_inverse(self) == Zp_inverses[self]

\* A slip that forgets the carry out of the fixed-width sum.
Zp_add_no_carry(self, rhs) ==
    LET r == overflowing_add(self, rhs)
    IN  IF r[1] >= P THEN wrapping_sub(r[1], P) ELSE r[1]

Zp_add(self, rhs) ==
    LET r == overflowing_add(self, rhs)
    IN  IF r[2] \/ r[1] >= P THEN wrapping_sub(r[1], P) ELSE r[1]

\* A slip that forgets the borrow of the fixed-width difference.
Zp_sub_no_borrow(self, rhs) ==
    LET r == overflowing_sub(self, rhs)
    IN  IF r[1] >= P THEN wrapping_add(r[1], P) ELSE r[1]

Zp_sub(self, rhs) ==
    LET r == overflowing_sub(self, rhs)
    IN  IF r[2] \/ r[1] >= P THEN wrapping_add(r[1], P) ELSE r[1]

\* `for _ in 0..256` with n passes: st holds self, the shifted rhs, res and
\* the number i of passes left.
Zp_mul_loop(self, rhs, n) ==
    LET loop[st \in [self : Int, rhs : Int, res : Int, i : Nat]] ==
            IF st.i = 0
            THEN st.res
            ELSE LET dbl == Zp_add(st.res, st.res)
                 IN  loop[[self |-> st.self,
                           rhs |-> wrapping_shl(st.rhs, 1),
                           res |-> IF top_bit(st.rhs)
                                   THEN Zp_add(dbl, st.self)
                                   ELSE dbl,
                           i |-> st.i - 1]]
    IN  loop[[self |-> self, rhs |-> rhs, res |-> ZERO, i |-> n]]

\* The products of the 256-pass loop, each computed once.
Zp_products ==
    [self \in U256 |-> [rhs \in U256 |-> Zp_mul_loop(self, rhs, Width)]]

\* A slip that runs the loop one pass short.
Zp_mul_U256_short(self, rhs) == Zp_mul_loop(self, rhs, Width - 1)

Zp_mul_U256(self, rhs) == Zp_products[self][rhs]

\* U256::from(rhs) zero-extends the 64-bit value.
Zp_mul_u64(self, rhs) == Zp_mul_U256(self, rhs)

Zp_mul(self, rhs) == Zp_mul_U256(self, rhs)

Zp_div(self, rhs) == Zp_mul(self, multiplicative_inverse(rhs))

\* A slip that drops the zero test.
Zp_neg_no_zero_test(self) == checked_sub(P, self)

Zp_neg(self) ==
    IF is_zero(self) THEN self ELSE checked_sub(P, self)

---------------------------------------------------------------------------
\* Point: a record of two field elements.

Point(x, y) == [x |-> x, y |-> y]

AT_INFINITY == Point(ZERO, ZERO)

\* pub const G: the generator.
G == Point(1, 18)

\* const B: the curve parameter.
B == 7

\* Curve order of SECP256K1
SECP256K1_GROUP_ORDER == 67

\* A slip that leaves the curve parameter out of the equation.
Point_new_no_B(x, y) ==
    IF (is_zero(x) /\ is_zero(y)) \/ Zp_mul(y, y) = Zp_mul(Zp_mul(x, x), x)
    THEN Some(Point(x, y))
    ELSE None

Point_new(x, y) ==
    IF (is_zero(x) /\ is_zero(y))
       \/ Zp_mul(y, y) = Zp_add(Zp_mul(Zp_mul(x, x), x), B)
    THEN Some(Point(x, y))
    ELSE None

is_at_infinity(self) == is_zero(self.x) /\ is_zero(self.y)

\* A slip that inverts modulo the field prime instead of the group order.
scalar_multiplicative_inverse_mod_P(scalar) == mod_inverse(scalar, P)

scalar_multiplicative_inverse(scalar) ==
    mod_inverse(scalar, SECP256K1_GROUP_ORDER)

\* A slip that negates the wrong coordinate.
Point_neg_x(self) == Point(Zp_neg(self.x), self.y)

Point_neg(self) == Point(self.x, Zp_neg(self.y))

\* The outcome of one point addition: the sum, and, when the slope is
\* computed, the branch taken and the divisor handed to the field division.
Sum(pt, branches, divisors) ==
    [pt |-> pt, slopes |-> branches, dens |-> divisors]

\* The slope and coordinate computation after the three early returns,
\* statement by statement: q = self, p = rhs; each value, once computed, is
\* handed to the statements that follow.
Point_add_num(p, q) ==
    IF p = q THEN Zp_mul_u64(Zp_mul(p.x, p.x), 3) ELSE Zp_sub(q.y, p.y)

Point_add_den(p, q) ==
    IF p = q THEN Zp_mul_u64(p.y, 2) ELSE Zp_sub(q.x, p.x)

Point_add_x(p, q, lambda) ==
    Zp_sub(Zp_sub(Zp_mul(lambda, lambda), p.x), q.x)

Point_add_y(p, lambda, x) ==
    Zp_sub(Zp_mul(lambda, Zp_sub(p.x, x)), p.y)

Point_add_xy(p, lambda, x) == Point(x, Point_add_y(p, lambda, x))

Point_add_lambda(p, q, lambda) ==
    Point_add_xy(p, lambda, Point_add_x(p, q, lambda))

Point_add_div(p, q, den) ==
    Sum(Point_add_lambda(p, q, Zp_div(Point_add_num(p, q), den)),
        {IF p = q THEN "doubling" ELSE "distinct"},
        {den})

Point_add_slope(self, rhs) ==
    Point_add_div(rhs, self, Point_add_den(rhs, self))

\* A slip that leaves out the `self == -rhs` early return.
Point_add_traced_no_inverse_test(self, rhs) ==
    IF is_at_infinity(self) THEN Sum(rhs, {}, {})
    ELSE IF is_at_infinity(rhs) THEN Sum(self, {}, {})
    ELSE Point_add_slope(self, rhs)

Point_add_traced(self, rhs) ==
    IF is_at_infinity(self) THEN Sum(rhs, {}, {})
    ELSE IF is_at_infinity(rhs) THEN Sum(self, {}, {})
    ELSE IF self = Point_neg(rhs) THEN Sum(AT_INFINITY, {}, {})
    ELSE Point_add_slope(self, rhs)

Point_add(self, rhs) == Point_add_traced(self, rhs).pt

\* One pass of the body of `for _ in 0..256`: res = res + res, then
\* res += self when the top bit of rhs is set.  res carries the slope
\* computations of the additions made so far.
Point_mul_then(res, sum) ==
    Sum(sum.pt, res.slopes \cup sum.slopes, res.dens \cup sum.dens)

Point_mul_double(res) ==
    Point_mul_then(res, Point_add_traced(res.pt, res.pt))

Point_mul_add(self, rhs, res) ==
    IF top_bit(rhs)
    THEN Point_mul_then(res, Point_add_traced(res.pt, self))
    ELSE res

\* `for _ in 0..256` with i passes left; each statement of the body is
\* evaluated before the next one starts from its value.
RECURSIVE Point_mul_loop(_, _, _, _)
Point_mul_loop(self, rhs, res, i) ==
    IF i = 0
    THEN res
    ELSE CHOOSE end \in
             { Point_mul_loop(self, wrapping_shl(rhs, 1), added, i - 1) :
                 added \in { Point_mul_add(self, rhs, doubled) :
                     doubled \in {Point_mul_double(res)} } } : TRUE

Point_mul_traced(self, rhs) ==
    Point_mul_loop(self, rhs, Sum(AT_INFINITY, {}, {}), Width)

\* A slip that runs the loop one pass short.
Point_mul_U256_short(self, rhs) ==
    Point_mul_loop(self, rhs, Sum(AT_INFINITY, {}, {}), Width - 1).pt

Point_mul_U256(self, rhs) == Point_mul_traced(self, rhs).pt

\* U256::from(rhs) zero-extends the 64-bit value.
Point_mul_u64(self, rhs) == Point_mul_U256(self, rhs)

---------------------------------------------------------------------------
VARIABLES
    op,     \* the operation applied last ("init" before any)
    a, b,   \* the two raw 256-bit inputs of the operation
    out,    \* what the operation returned
    acc,    \* the point a caller holds and operates on
    slopes, \* the slope branches the last point operation went through
    divZero \* whether one of its slope computations divided by field zero

vars == << op, a, b, out, acc, slopes, divZero >>

\* No point operation made yet.
NoPoints ==
    /\ acc = AT_INFINITY
    /\ slopes = {}
    /\ divZero = FALSE

\* The inputs of an operation: any two words.
InitInputs ==
    /\ op = "init"
    /\ a \in U256
    /\ b \in U256
    /\ out = None
    /\ NoPoints

Apply(name, r) ==
    /\ op = "init"
    /\ op' = name
    /\ out' = r
    /\ UNCHANGED << a, b, acc, slopes, divZero >>

\* A Zp can only be built canonical: binary operators take a, b < P.
WrappingFrom == Apply("wrapping_from", Some(wrapping_from(a)))

CheckedFrom == Apply("checked_from", checked_from(a))

ZpAdd == a \in Zp /\ b \in Zp /\ Apply("add", Some(Zp_add(a, b)))

ZpSub == a \in Zp /\ b \in Zp /\ Apply("sub", Some(Zp_sub(a, b)))

ZpNeg == a \in Zp /\ Apply("neg", Some(Zp_neg(a)))

ZpMulU256 == a \in Zp /\ Apply("mul_U256", Some(Zp_mul_U256(a, b)))

ZpMul == a \in Zp /\ b \in Zp /\ Apply("mul", Some(Zp_mul(a, b)))

\* Division by the field zero is a precondition violation of the caller.
ZpDiv == a \in Zp /\ b \in Zp /\ b # 0 /\ Apply("div", Some(Zp_div(a, b)))

NextField ==
    \/ WrappingFrom
    \/ CheckedFrom
    \/ ZpAdd
    \/ ZpSub
    \/ ZpNeg
    \/ ZpMulU256
    \/ ZpMul
    \/ ZpDiv

SpecField == InitInputs /\ [][NextField]_vars

---------------------------------------------------------------------------
\* Operations on points of given coordinates and scalars (the checks of
\* mod tests, over every input instead of one).

RECURSIVE Gcd(_, _)
Gcd(m, n) == IF n = 0 THEN m ELSE Gcd(n, m % n)

\* The multiples G * k, each computed once by the scalar multiplication.
G_multiples == [k \in U256 |-> Point_mul_U256(G, k)]

PointNew == a \in Zp /\ b \in Zp /\ Apply("new", Point_new(a, b))

\* G * (a + b) against G * a + G * b; the scalar sum must fit the word.
Distributive ==
    /\ a + b < TwoW
    /\ Apply("distributive",
             << G_multiples[a + b],
                Point_add(G_multiples[a], G_multiples[b]) >>)

\* G * 2 against G + G.
DoubleIsMul2 ==
    /\ a = 2
    /\ b = 0
    /\ Apply("double_is_mul_2", << Point_mul_u64(G, a), Point_add(G, G) >>)

\* G * 3 against G + G + G.
TripleIsMul3 ==
    /\ a = 3
    /\ b = 0
    /\ Apply("triple_is_mul_3",
             << Point_mul_u64(G, a), Point_add(Point_add(G, G), G) >>)

\* G * n, n the group order.
CurveOrder ==
    /\ a = SECP256K1_GROUP_ORDER
    /\ b = 0
    /\ Apply("curve_order", Some(Point_mul_U256(G, a)))

\* (G * a) * scalar_multiplicative_inverse(a), for a coprime to the order.
MultiplicativeInverse ==
    /\ Gcd(a, SECP256K1_GROUP_ORDER) = 1
    /\ b = 0
    /\ Apply("multiplicative_inverse",
             Some(Point_mul_U256(G_multiples[a],
                                 scalar_multiplicative_inverse(a))))

NextCurve ==
    \/ PointNew
    \/ Distributive
    \/ DoubleIsMul2
    \/ TripleIsMul3
    \/ CurveOrder
    \/ MultiplicativeInverse

SpecCurve == InitInputs /\ [][NextCurve]_vars

---------------------------------------------------------------------------
\* A caller working on a point: it starts from G or AT_INFINITY, may replace
\* the point by any Point::new accepts, and applies the point operators to
\* it, with any accepted point as the other operand and any scalar.

\* The coordinate pairs Point::new accepts.
Accepted == {c \in Zp \X Zp : Point_new(c[1], c[2]) # None}

InitPoint ==
    /\ op = "init"
    /\ a = 0
    /\ b = 0
    /\ out = None
    /\ acc \in {G, AT_INFINITY}
    /\ slopes = {}
    /\ divZero = FALSE

\* The point becomes t.pt by operation `name`; t records its slope steps.
Becomes(name, t) ==
    /\ op' = name
    /\ acc' = t.pt
    /\ slopes' = t.slopes
    /\ divZero' = (ZERO \in t.dens)
    /\ UNCHANGED << a, b, out >>

New ==
    \E c \in Accepted :
        Becomes("new", Sum(Point_new(c[1], c[2])[1], {}, {}))

Add ==
    \E c \in Accepted :
        Becomes("add", Point_add_traced(acc, Point_new(c[1], c[2])[1]))

\* acc + acc
Double == Becomes("double", Point_add_traced(acc, acc))

Neg == Becomes("neg", Sum(Point_neg(acc), {}, {}))

Mul == \E k \in U256 : Becomes("mul", Point_mul_traced(acc, k))

NextPoint ==
    \/ New
    \/ Add
    \/ Double
    \/ Neg
    \/ Mul

SpecPoint == InitPoint /\ [][NextPoint]_vars

---------------------------------------------------------------------------
\* C1: field addition of canonical a, b yields exactly (a + b) mod P, also
\* when the fixed-width sum overflows the word.
C1_AddIsSumModP ==
    op = "add" => out = Some((a + b) % P)

C1_Witness ==
    /\ op = "add"
    /\ a + b >= TwoW
    /\ out = Some((a + b) % P)

\* C7: field subtraction of canonical a, b yields exactly (a - b) mod P,
\* canonical, also when the fixed-width difference underflows.
C7_SubIsDiffModP ==
    op = "sub" => /\ out = Some((a - b + P) % P)
                  /\ out[1] \in Zp

C7_Witness ==
    /\ op = "sub"
    /\ a = 0
    /\ b = 1
    /\ out = Some(P - 1)

\* C2: the double-and-add product of a canonical a and any 256-bit
\* multiplier k (k >= P included) is exactly (a * k) mod P; Zp * Zp too.
C2_MulIsProductModP ==
    op \in {"mul_U256", "mul"} => out = Some((a * b) % P)

C2_Witness ==
    /\ op = "mul_U256"
    /\ b >= P
    /\ a > 1
    /\ out = Some((a * b) % P)

\* C3: wrapping_from maps every 256-bit value to its least non-negative
\* residue modulo P.
C3_WrappingFromIsMod ==
    op = "wrapping_from" => out = Some(a % P)

C3_Witness ==
    /\ op = "wrapping_from"
    /\ a = TwoW - 1
    /\ out = Some(a % P)

\* C10: every field element produced by wrapping_from, checked_from (Some),
\* addition, subtraction, negation or multiplication is canonical, and
\* negation maps 0 to 0 and any other v to P - v without underflow.
C10_Canonical ==
    /\ (op \in {"wrapping_from", "checked_from", "add", "sub", "neg",
                "mul_U256", "mul"} /\ out # None) => out[1] \in Zp
    /\ op = "neg" => out = Some(IF a = 0 THEN 0 ELSE P - a)

C10_Witness ==
    /\ op = "neg"
    /\ a = 0
    /\ out = Some(0)

\* C4: Point::new(x, y) returns Some(Point{x, y}) exactly when (x, y) is the
\* sentinel (0, 0) or y^2 = x^3 + 7 in the field, and None otherwise.
C4_NewIffOnCurve ==
    op = "new" =>
        out = IF (a = 0 /\ b = 0) \/ (b * b) % P = (a * a * a + 7) % P
              THEN Some(Point(a, b))
              ELSE None

C4_Witness ==
    /\ op = "new"
    /\ a = G.x
    /\ b = G.y
    /\ out = Some(G)

\* C5: G * (a + b) = G * a + G * b for all scalars a, b whose sum is a
\* scalar; in particular G * 2 = G + G and G * 3 = G + G + G.
C5_Distributive ==
    op \in {"distributive", "double_is_mul_2", "triple_is_mul_3"} =>
        out[1] = out[2]

C5_Witness ==
    /\ op = "distributive"
    /\ a + b > SECP256K1_GROUP_ORDER
    /\ a > 1
    /\ b > 1
    /\ out[1] = out[2]
    /\ out[1] # AT_INFINITY

\* C6: (G * s) * scalar_multiplicative_inverse(s) = G for every scalar s
\* coprime to the group order.
C6_InverseRoundTrip ==
    op = "multiplicative_inverse" => out = Some(G)

C6_Witness ==
    /\ op = "multiplicative_inverse"
    /\ a > SECP256K1_GROUP_ORDER
    /\ out = Some(G)

\* C8: every point a caller reaches from G, AT_INFINITY and the points
\* Point::new accepts, by addition, negation and scalar multiplication, is
\* the sentinel (0, 0) or satisfies y^2 = x^3 + 7 (mod P): Point::new
\* accepts it.
C8_OnCurve ==
    /\ \/ acc = AT_INFINITY
       \/ (acc.y * acc.y) % P = (acc.x * acc.x * acc.x + 7) % P
    /\ acc.x \in Zp
    /\ acc.y \in Zp
    /\ Point_new(acc.x, acc.y) = Some(acc)

C8_Witness ==
    /\ op = "mul"
    /\ acc # AT_INFINITY
    /\ acc # G
    /\ slopes = {"doubling", "distinct"}
    /\ (acc.y * acc.y) % P = (acc.x * acc.x * acc.x + 7) % P

\* C9: no slope computation of a point addition (alone or inside a scalar
\* multiplication) on valid points divides by the field zero, in the
\* doubling branch or in the distinct-points branch.
C9_NoDivisionByZero ==
    divZero = FALSE

C9_Witness ==
    /\ op = "add"
    /\ slopes = {"distinct"}
    /\ divZero = FALSE

====
